---- MODULE Spec2Model ----
(***************************************************************************)
(* The bottom tab bar of the money-transfer application: the routes that   *)
(* TabLayout registers, the render function CustomTabBar, the press        *)
(* handler handleTabPress and the route-name -> (label, icon) lookups.     *)
(* Indices are 0-based as in the source (the center button is index 2).    *)
(***************************************************************************)
EXTENDS Naturals, Sequences, FiniteSets, TLC

VARIABLES
    state,        \* navigation state owned by the engine: [index, routes]
    colorScheme,  \* result of useColorScheme(): "light", "dark" or "null"
    EXPO_OS,      \* process.env.EXPO_OS
    rendered,     \* the element tree CustomTabBar returned on the last render
    press,        \* the handleTabPress call of the event just handled, if it was a press
    routeName,    \* argument of the next getIconName / getTabLabel call
    mapped        \* result of the last getIconName / getTabLabel call

vars == <<state, colorScheme, EXPO_OS, rendered, press, routeName, mapped>>

\* ------------------------------------------------------------------ bounds

\* Number of params objects that exist at a time; each belongs to one route.
MaxParams == 1

\* Largest index handleTabPress is tried on by itself (one past the routes).
MaxIndex == 5

\* ------------------------------------------------------- constants/Colors.ts

\* Mutant: the dark palette has its own accent color.
ColorsDarkAccentDiffers ==
    [ light |-> [ text |-> "#11181C", background |-> "#fff", tint |-> "#FF6B35",
                  icon |-> "#8E8E93", tabIconDefault |-> "#8E8E93",
                  tabIconSelected |-> "#000000", tabBarBackground |-> "#FFFFFF",
                  primaryOrange |-> "#FF6B35" ],
      dark  |-> [ text |-> "#ECEDEE", background |-> "#151718", tint |-> "#FF8A5C",
                  icon |-> "#8E8E93", tabIconDefault |-> "#8E8E93",
                  tabIconSelected |-> "#FFFFFF", tabBarBackground |-> "#1C1C1E",
                  primaryOrange |-> "#FF8A5C" ] ]

Colors ==
    [ light |-> [ text |-> "#11181C", background |-> "#fff", tint |-> "#FF6B35",
                  icon |-> "#8E8E93", tabIconDefault |-> "#8E8E93",
                  tabIconSelected |-> "#000000", tabBarBackground |-> "#FFFFFF",
                  primaryOrange |-> "#FF6B35" ],
      dark  |-> [ text |-> "#ECEDEE", background |-> "#151718", tint |-> "#FF6B35",
                  icon |-> "#8E8E93", tabIconDefault |-> "#8E8E93",
                  tabIconSelected |-> "#FFFFFF", tabBarBackground |-> "#1C1C1E",
                  primaryOrange |-> "#FF6B35" ] ]

\* useColorScheme() yields a scheme or null/undefined.
ColorSchemes == {"light", "dark", "null"}

PaletteNullIsDark(scheme) == Colors[IF scheme = "light" THEN "light" ELSE "dark"]

\* Colors[colorScheme ?? 'light']
Palette(scheme) == Colors[IF scheme = "null" THEN "light" ELSE scheme]

\* ------------------------------------------------------- app/(tabs)/_layout.tsx

\* Mutant: the send-money screen is registered last instead of third.
ScreenNamesSendMoneyLast ==
    <<"index", "recipients", "track", "locations", "send-money">>

\* The <Tabs.Screen name=...> children of TabLayout, in order.
ScreenNames == <<"index", "recipients", "send-money", "track", "locations">>

RouteIndices == 0 .. (Len(ScreenNames) - 1)

\* route.params: undefined, or one of MaxParams opaque parameter objects.
undefined == << >>

ParamValues == {undefined} \cup {<<"params", n>> : n \in 1 .. MaxParams}

\* The key the engine gives a route: distinct from its name.
RouteKey(name) == name \o "-key"

\* The route list the engine builds from the registered screens.
MakeRoutes(params) ==
    [i \in RouteIndices |->
        [key |-> RouteKey(ScreenNames[i + 1]), name |-> ScreenNames[i + 1],
         params |-> params[i]]]

\* The options of each <Tabs.Screen>, in order.
ScreenOptions ==
    << [title |-> "Home",       tabBarLabel |-> "Home"],
       [title |-> "Recipients", tabBarLabel |-> "Recipients"],
       [title |-> "Send Money", tabBarLabel |-> "Send Money"],
       [title |-> "Track",      tabBarLabel |-> "Track"],
       [title |-> "Locations",  tabBarLabel |-> "Locations"] >>

\* TabLayout(): the <Tabs> element it returns under color scheme `scheme`.
TabLayout(scheme) ==
    [ tabBar |-> "CustomTabBar",
      screenOptions |->
          [ headerShown |-> FALSE,
            tabBarActiveTintColor |-> Palette(scheme).tabIconSelected,
            tabBarInactiveTintColor |-> Palette(scheme).tabIconDefault ],
      screens |-> [k \in DOMAIN ScreenNames |->
                      [name |-> ScreenNames[k], options |-> ScreenOptions[k]]] ]

\* Platforms process.env.EXPO_OS can name.
Platforms == {"ios", "android", "web"}

\* IconSymbol's table of the symbol names it has a glyph for, as the
\* repository documents it: symbol name -> glyph name.
MAPPING ==
    ( "house.fill"             :> "home" )
 @@ ( "person.2.fill"          :> "people" )
 @@ ( "paperplane.fill"        :> "send" )
 @@ ( "arrow.left.arrow.right" :> "swap-horiz" )
 @@ ( "location.fill"          :> "location-on" )

\* ------------------------------------------------ CustomTabBar: the lookups

getIconNameDefaultsToName(name) ==
    CASE name = "index"      -> "house.fill"
      [] name = "recipients" -> "person.2.fill"
      [] name = "send-money" -> "paperplane.fill"
      [] name = "track"      -> "arrow.left.arrow.right"
      [] name = "locations"  -> "location.fill"
      [] OTHER               -> name

getIconName(name) ==
    CASE name = "index"      -> "house.fill"
      [] name = "recipients" -> "person.2.fill"
      [] name = "send-money" -> "paperplane.fill"
      [] name = "track"      -> "arrow.left.arrow.right"
      [] name = "locations"  -> "location.fill"
      [] OTHER               -> "house.fill"

getTabLabelSwapped(name) ==
    CASE name = "index"      -> "Home"
      [] name = "recipients" -> "Recipients"
      [] name = "send-money" -> "Send Money"
      [] name = "track"      -> "Locations"
      [] name = "locations"  -> "Track"
      [] OTHER               -> name

\* Mutant: the label of the center route is shortened in the lookup and not
\* in the screen's options.
getTabLabelSendShort(name) ==
    CASE name = "index"      -> "Home"
      [] name = "recipients" -> "Recipients"
      [] name = "send-money" -> "Send"
      [] name = "track"      -> "Track"
      [] name = "locations"  -> "Locations"
      [] OTHER               -> name

getTabLabel(name) ==
    CASE name = "index"      -> "Home"
      [] name = "recipients" -> "Recipients"
      [] name = "send-money" -> "Send Money"
      [] name = "track"      -> "Track"
      [] name = "locations"  -> "Locations"
      [] OTHER               -> name

\* ------------------------------------------------ CustomTabBar: handleTabPress

\* What becomes of the promise Haptics.impactAsync returns.
HapticFates == {"resolves", "rejects", "never"}

\* The fates open to a press: there is a promise only where the call is made.
FatesOn(os) == IF os = "ios" THEN HapticFates ELSE {"no promise"}

feedbackStyleSwapped(index) == IF index = 2 THEN "Light" ELSE "Medium"

\* index === 2 ? ImpactFeedbackStyle.Medium : ImpactFeedbackStyle.Light
feedbackStyle(index) == IF index = 2 THEN "Medium" ELSE "Light"

\* if (process.env.EXPO_OS === 'ios') Haptics.impactAsync(feedbackStyle):
\* the calls made, in order; the promise is dropped.
hapticFeedback(os, index, fate) ==
    IF os = "ios"
    THEN << [kind |-> "haptic", style |-> feedbackStyle(index), promise |-> fate] >>
    ELSE << >>

\* navigation.emit(e): the engine runs the listeners and returns the event;
\* preventDefault() takes effect only on an event that can be prevented.
emit(e, listenerVeto) ==
    [type |-> e.type, target |-> e.target,
     defaultPrevented |-> (e.canPreventDefault /\ listenerVeto)]

tabPressEventNotCancelable(route) ==
    [type |-> "tabPress", target |-> route.key, canPreventDefault |-> FALSE]

\* { type: 'tabPress', target: route.key, canPreventDefault: true }
tabPressEvent(route) ==
    [type |-> "tabPress", target |-> route.key, canPreventDefault |-> TRUE]

shouldNavigateIgnoresFocus(isFocused, event) == ~event.defaultPrevented

shouldNavigateIgnoresVeto(isFocused, event) == ~isFocused

\* !isFocused && !event.defaultPrevented
shouldNavigate(isFocused, event) == ~isFocused /\ ~event.defaultPrevented

navigateRequestDropsParams(route) ==
    [kind |-> "navigate", name |-> route.name, params |-> undefined]

\* navigation.navigate(route.name, route.params)
navigateRequest(route) ==
    [kind |-> "navigate", name |-> route.name, params |-> route.params]

emitRecord(e, event) ==
    [kind |-> "emit", type |-> e.type, target |-> e.target,
     canPreventDefault |-> e.canPreventDefault,
     defaultPrevented |-> event.defaultPrevented]

\* Mutant: the navigation request is issued before the event is emitted.
handleTabPressNavigatesFirst(route, index, isFocused, os, listenerVeto, fate) ==
    LET e     == tabPressEvent(route)
        event == emit(e, listenerVeto)
    IN  [effects |-> hapticFeedback(os, index, fate)
                     \o (IF ~isFocused THEN << navigateRequest(route) >> ELSE << >>)
                     \o << emitRecord(e, event) >>,
         error |-> "none", returned |-> TRUE]

\* Mutant: the handler awaits the haptic promise and lets its failure out.
handleTabPressAwaitsHaptic(route, index, isFocused, os, listenerVeto, fate) ==
    LET e       == tabPressEvent(route)
        event   == emit(e, listenerVeto)
        haptic  == hapticFeedback(os, index, fate)
        settled == haptic = << >> \/ fate = "resolves"
    IN  [effects |-> haptic
                     \o (IF settled THEN << emitRecord(e, event) >> ELSE << >>)
                     \o (IF settled /\ shouldNavigate(isFocused, event)
                         THEN << navigateRequest(route) >> ELSE << >>),
         error |-> IF haptic # << >> /\ fate = "rejects" THEN "haptic" ELSE "none",
         returned |-> (haptic = << >> \/ fate # "never")]

\* handleTabPress(route, index, isFocused): the calls it makes on the outside
\* world, in order, and how it ends. os, listenerVeto and fate are what the
\* environment answers: the platform, whether a tabPress listener called
\* preventDefault(), and what becomes of the haptic promise.
handleTabPress(route, index, isFocused, os, listenerVeto, fate) ==
    LET e     == tabPressEvent(route)
        event == emit(e, listenerVeto)
    IN  [effects |-> hapticFeedback(os, index, fate)
                     \o << emitRecord(e, event) >>
                     \o (IF shouldNavigate(isFocused, event)
                         THEN << navigateRequest(route) >> ELSE << >>),
         error |-> "none", returned |-> TRUE]

\* ------------------------------------------------ CustomTabBar: render

isCenterButtonFromMiddleOn(index) == index >= 2

\* const isCenterButton = index === 2
isCenterButton(index) == index = 2

isFocusedIsCenter(st, index) == index = 2

isFocusedNever(st, index) == FALSE

\* Mutant: the bar keeps the item pressed last as its own selected item.
isFocusedRemembersPress(st, index) ==
    IF press.pressed THEN press.index = index ELSE st.index = index

\* Mutant: every item up to the active one counts as focused.
isFocusedUpToActive(st, index) == index <= st.index

\* const isFocused = state.index === index
isFocused(st, index) == st.index = index

\* Mutant: the center button is colored by its state as the other items
\* are.
TabItemCenterByFocus(st, index, colors) ==
    LET route   == st.routes[index]
        focused == isFocused(st, index)
        center  == isCenterButton(index)
        label   == getTabLabel(route.name)
        tint    == IF focused THEN colors.tabIconSelected
                              ELSE colors.tabIconDefault
    IN  [ key |-> route.key,
          onPress |-> [route |-> route, index |-> index, isFocused |-> focused],
          style |-> IF center THEN <<"tabItem", "centerButton">> ELSE <<"tabItem">>,
          accessibilityLabel |-> label \o " tab",
          accessibilityState |-> [selected |-> focused],
          content |->
              IF center
              THEN [ container |-> "centerButtonContainer",
                     backgroundColor |-> colors.primaryOrange,
                     iconName |-> getIconName(route.name),
                     iconColor |-> tint ]
              ELSE [ container |-> "regularTabContent",
                     backgroundColor |-> "none",
                     iconName |-> getIconName(route.name),
                     iconColor |-> tint ],
          label |-> [ text |-> label, color |-> tint,
                      centerButtonLabel |-> center ] ]

\* One <TouchableOpacity> of the row, for route `index` of `st`.
TabItem(st, index, colors) ==
    LET route   == st.routes[index]
        focused == isFocused(st, index)
        center  == isCenterButton(index)
        label   == getTabLabel(route.name)
    IN  [ key |-> route.key,
          onPress |-> [route |-> route, index |-> index, isFocused |-> focused],
          style |-> IF center THEN <<"tabItem", "centerButton">> ELSE <<"tabItem">>,
          accessibilityLabel |-> label \o " tab",
          accessibilityState |-> [selected |-> focused],
          content |->
              IF center
              THEN [ container |-> "centerButtonContainer",
                     backgroundColor |-> colors.primaryOrange,
                     iconName |-> getIconName(route.name),
                     iconColor |-> "#FFFFFF" ]
              ELSE [ container |-> "regularTabContent",
                     backgroundColor |-> "none",
                     iconName |-> getIconName(route.name),
                     iconColor |-> IF focused THEN colors.tabIconSelected
                                              ELSE colors.tabIconDefault ],
          label |->
              [ text |-> label,
                color |-> IF center THEN colors.tabIconSelected
                          ELSE IF focused THEN colors.tabIconSelected
                          ELSE colors.tabIconDefault,
                centerButtonLabel |-> center ] ]

\* Mutant: the row is built from the routes in reverse order.
CustomTabBarReversed(st, scheme) ==
    LET colors == Palette(scheme)
        last   == Cardinality(DOMAIN st.routes) - 1
    IN  [ backgroundColor |-> colors.tabBarBackground,
          items |-> [i \in DOMAIN st.routes |-> TabItem(st, last - i, colors)] ]

\* CustomTabBar({ state, descriptors, navigation }) under color scheme `scheme`.
CustomTabBar(st, scheme) ==
    LET colors == Palette(scheme)
    IN  [ backgroundColor |-> colors.tabBarBackground,
          items |-> [i \in DOMAIN st.routes |-> TabItem(st, i, colors)] ]

\* ------------------------------------------------ the navigation engine

\* The engine's answer to navigate(name, params): the named route becomes the
\* active one; params that are given replace the route's params.
Navigate(st, name, params) ==
    LET j == CHOOSE i \in DOMAIN st.routes : st.routes[i].name = name
    IN  [ index  |-> j,
          routes |-> IF params = undefined THEN st.routes
                     ELSE [st.routes EXCEPT ![j].params = params] ]

\* What the engine may answer to the requests of a press: it accepts or
\* ignores a navigation request; without one there is nothing to accept.
AcceptChoices(navs) == IF Len(navs) > 0 THEN BOOLEAN ELSE {FALSE}

IsNavigate(x) == x.kind = "navigate"
IsEmit(x) == x.kind = "emit"
IsHaptic(x) == x.kind = "haptic"

NoPress ==
    [ pressed |-> FALSE ]

NoMapping == [ called |-> FALSE ]

\* ------------------------------------------------ the state machine

InitApp ==
    /\ state = [index |-> 0,
                routes |-> MakeRoutes([i \in RouteIndices |-> undefined])]
    /\ colorScheme \in ColorSchemes
    /\ EXPO_OS \in Platforms
    /\ press = NoPress
    /\ rendered = CustomTabBar(state, colorScheme)

Init ==
    /\ InitApp
    /\ routeName = "index"
    /\ mapped = NoMapping

\* Mutant: the handler writes the pressed index into the state it was given
\* instead of leaving the switch to the engine.
PressWritesIndex(i) ==
    \E listenerVeto \in BOOLEAN, fate \in FatesOn(EXPO_OS), accepted \in BOOLEAN :
        LET c    == rendered.items[i].onPress
            r    == handleTabPress(c.route, c.index, c.isFocused,
                                   EXPO_OS, listenerVeto, fate)
            navs == SelectSeq(r.effects, IsNavigate)
            next == [state EXCEPT !.index = i]
        IN  /\ press' = [ pressed |-> TRUE, item |-> i,
                          route |-> c.route, index |-> c.index,
                          isFocused |-> c.isFocused,
                          activeIndex |-> state.index,
                          stateRoute |-> state.routes[i],
                          stateBefore |-> state,
                          listenerVeto |-> listenerVeto, fate |-> fate,
                          accepted |-> (accepted /\ Len(navs) > 0),
                          effects |-> r.effects, error |-> r.error,
                          returned |-> r.returned ]
            /\ state' = next
            /\ rendered' = CustomTabBar(next, colorScheme)
            /\ UNCHANGED <<colorScheme, EXPO_OS, routeName, mapped>>

\* The user presses item i of the rendered row: its onPress closure runs
\* handleTabPress to completion; a navigation request the engine accepts
\* changes the navigation state, and the bar is rendered again.
Press(i) ==
    \E listenerVeto \in BOOLEAN, fate \in FatesOn(EXPO_OS) :
      LET c    == rendered.items[i].onPress
          r    == handleTabPress(c.route, c.index, c.isFocused,
                                 EXPO_OS, listenerVeto, fate)
          navs == SelectSeq(r.effects, IsNavigate)
      IN  \E accepted \in AcceptChoices(navs) :
        LET next == IF accepted
                    THEN Navigate(state, navs[1].name, navs[1].params)
                    ELSE state
        IN  /\ press' = [ pressed |-> TRUE, item |-> i,
                          route |-> c.route, index |-> c.index,
                          isFocused |-> c.isFocused,
                          activeIndex |-> state.index,
                          stateRoute |-> state.routes[i],
                          stateBefore |-> state,
                          listenerVeto |-> listenerVeto, fate |-> fate,
                          accepted |-> accepted,
                          effects |-> r.effects, error |-> r.error,
                          returned |-> r.returned ]
            /\ state' = next
            /\ rendered' = CustomTabBar(next, colorScheme)
            /\ UNCHANGED <<colorScheme, EXPO_OS, routeName, mapped>>

\* Mutant: the engine switches the active route and the bar is not rendered
\* again, so the items keep the closures of the render before.
EngineSwitchSkipsRender(j) ==
    /\ j # state.index
    /\ state' = [state EXCEPT !.index = j]
    /\ press' = NoPress
    /\ UNCHANGED <<rendered, colorScheme, EXPO_OS, routeName, mapped>>

\* The engine switches the active route for a reason of its own (a link, a
\* call from a screen) and renders the bar again.
EngineSwitch(j) ==
    /\ j # state.index
    /\ state' = [state EXCEPT !.index = j]
    /\ rendered' = CustomTabBar(state', colorScheme)
    /\ press' = NoPress
    /\ UNCHANGED <<colorScheme, EXPO_OS, routeName, mapped>>

\* The params of a route change (setParams) and the bar is rendered again.
EngineSetParams(j, p) ==
    /\ p # state.routes[j].params
    /\ p = undefined \/ \A k \in DOMAIN state.routes : state.routes[k].params # p
    /\ state' = [state EXCEPT !.routes[j].params = p]
    /\ rendered' = CustomTabBar(state', colorScheme)
    /\ press' = NoPress
    /\ UNCHANGED <<colorScheme, EXPO_OS, routeName, mapped>>

\* The ambient color scheme changes and the bar is rendered again.
ColorSchemeChange(s) ==
    /\ s # colorScheme
    /\ colorScheme' = s
    /\ rendered' = CustomTabBar(state, s)
    /\ press' = NoPress
    /\ UNCHANGED <<state, EXPO_OS, routeName, mapped>>

Next ==
    \/ \E i \in DOMAIN rendered.items : Press(i)
    \/ \E j \in RouteIndices : EngineSwitch(j)
    \/ \E j \in RouteIndices, p \in ParamValues : EngineSetParams(j, p)
    \/ \E s \in ColorSchemes : ColorSchemeChange(s)

Spec == Init /\ [][Next]_vars

\* ------------------------------------------------ the lookups on their own

\* Arguments tried on getIconName / getTabLabel: the five registered names
\* and names no screen is registered under.
RouteNameInputs ==
    {ScreenNames[k] : k \in DOMAIN ScreenNames}
    \cup {"explore", "", "Index", "Home", "home", "send_money", "sendMoney",
          "settings", "+not-found", "locations "}

InitMapper ==
    /\ InitApp
    /\ routeName \in RouteNameInputs
    /\ mapped = NoMapping

\* const iconName = getIconName(route.name); const label = getTabLabel(route.name)
MapRoute ==
    /\ mapped' = [ called |-> TRUE, routeName |-> routeName,
                   label |-> getTabLabel(routeName),
                   icon |-> getIconName(routeName) ]
    /\ routeName' \in RouteNameInputs
    /\ UNCHANGED <<state, colorScheme, EXPO_OS, rendered, press>>

NextMapper == MapRoute

SpecMapper == InitMapper /\ [][NextMapper]_vars

\* ------------------------------------------------ the handlers on their own

\* getIconName, getTabLabel and handleTabPress called once for a route of
\* any name at any index, under any active index.
CallHandlers ==
    /\ ~press.pressed
    /\ \E n \in RouteNameInputs, i \in 0 .. MaxIndex, active \in 0 .. MaxIndex,
       p \in ParamValues, listenerVeto \in BOOLEAN, fate \in FatesOn(EXPO_OS) :
        LET route == [key |-> RouteKey(n), name |-> n, params |-> p]
            r     == handleTabPress(route, i, active = i,
                                    EXPO_OS, listenerVeto, fate)
        IN  /\ mapped' = [ called |-> TRUE, routeName |-> n,
                           label |-> getTabLabel(n), icon |-> getIconName(n) ]
            /\ press' = [ pressed |-> TRUE, item |-> i,
                          route |-> route, index |-> i,
                          isFocused |-> (active = i),
                          activeIndex |-> active,
                          listenerVeto |-> listenerVeto, fate |-> fate,
                          effects |-> r.effects, error |-> r.error,
                          returned |-> r.returned ]
            /\ routeName' = n
            /\ UNCHANGED <<state, colorScheme, EXPO_OS, rendered>>

NextHandlers == CallHandlers

SpecHandlers == Init /\ [][NextHandlers]_vars

\* ------------------------------------------------ what a press did

Navs(p) == SelectSeq(p.effects, IsNavigate)
Emits(p) == SelectSeq(p.effects, IsEmit)
HapticCalls(p) == SelectSeq(p.effects, IsHaptic)

\* The calls on the navigation engine among a handler's effects, in order.
Dispatch(effects) == SelectSeq(effects, LAMBDA x : x.kind # "haptic")

\* The items of a render that carry the elevated circular styling.
ElevatedItems(r) ==
    {i \in DOMAIN r.items :
        \/ r.items[i].content.container = "centerButtonContainer"
        \/ r.items[i].style # <<"tabItem">>}

\* ------------------------------------------------ claims

SupportedNames == {"index", "recipients", "send-money", "track", "locations"}

DocumentedPair(name) ==
    CASE name = "index"      -> <<"Home", "house.fill">>
      [] name = "recipients" -> <<"Recipients", "person.2.fill">>
      [] name = "send-money" -> <<"Send Money", "paperplane.fill">>
      [] name = "track"      -> <<"Track", "arrow.left.arrow.right">>
      [] name = "locations"  -> <<"Locations", "location.fill">>

\* C1: for each of the five supported route names the lookups return the
\* documented (label, icon) pair.
C1_SupportedPairs ==
    (mapped.called /\ mapped.routeName \in SupportedNames)
        => <<mapped.label, mapped.icon>> = DocumentedPair(mapped.routeName)

C1_Witness ==
    /\ mapped.called
    /\ mapped.routeName = "track"
    /\ mapped.label = "Track"
    /\ mapped.icon = "arrow.left.arrow.right"

\* C2 as stated: for a route name outside the five supported names both the
\* label and the icon are those of the Home route.
C2_HomeFallbackPair ==
    (mapped.called /\ mapped.routeName \notin SupportedNames)
        => (mapped.label = "Home" /\ mapped.icon = "house.fill")

\* C2 amended: for a route name outside the five supported names the icon is
\* the Home icon and the label is the route name itself, unchanged.
C2_IconFallsBackLabelIsName ==
    (mapped.called /\ mapped.routeName \notin SupportedNames)
        => (mapped.icon = "house.fill" /\ mapped.label = mapped.routeName)

C2_Witness ==
    /\ mapped.called
    /\ mapped.routeName = "explore"
    /\ mapped.label = "explore"
    /\ mapped.icon = "house.fill"

\* C3: in every render exactly one item carries the elevated circular
\* styling, it is the item at index 2, and it is the same item whichever
\* route is active.
C3_OneElevatedItem ==
    /\ Cardinality(ElevatedItems(rendered)) = 1
    /\ ElevatedItems(rendered) = {2}
    /\ rendered.items[2].content.container = "centerButtonContainer"
    /\ rendered.items[2].style = <<"tabItem", "centerButton">>
    /\ \A a \in DOMAIN state.routes :
          ElevatedItems(CustomTabBar([state EXCEPT !.index = a], colorScheme))
              = ElevatedItems(rendered)

C3_Witness ==
    /\ state.index = 4
    /\ rendered.items[4].accessibilityState.selected
    /\ ElevatedItems(rendered) = {2}

\* C4: a press on the item whose index is the active index issues no
\* navigation request, vetoed or not.
C4_ActiveTabNoNavigate ==
    (press.pressed /\ press.index = press.activeIndex) => Len(Navs(press)) = 0

C4_Witness ==
    /\ press.pressed
    /\ press.index = press.activeIndex
    /\ ~press.listenerVeto
    /\ Len(Emits(press)) = 1

\* C5: a press on an item other than the active one that no listener vetoes
\* issues exactly one navigation request, addressed to the pressed index's
\* route and carrying that route's params unchanged.
C5_OneNavigateWithParams ==
    (press.pressed /\ press.index # press.activeIndex /\ ~press.listenerVeto)
        => /\ Len(Navs(press)) = 1
           /\ Navs(press)[1].name = ScreenNames[press.item + 1]
           /\ Navs(press)[1].name = press.stateRoute.name
           /\ Navs(press)[1].params = press.stateRoute.params

C5_Witness ==
    /\ press.pressed
    /\ press.index # press.activeIndex
    /\ ~press.listenerVeto
    /\ press.stateRoute.params # undefined
    /\ Len(Navs(press)) = 1

\* C6: when the emitted event comes back with defaultPrevented true, the
\* press issues no navigation request, whatever the pressed and active index.
C6_VetoNoNavigate ==
    (press.pressed /\ \E k \in DOMAIN press.effects :
                          /\ press.effects[k].kind = "emit"
                          /\ press.effects[k].defaultPrevented)
        => Len(Navs(press)) = 0

C6_Witness ==
    /\ press.pressed
    /\ press.index # press.activeIndex
    /\ Len(Emits(press)) = 1
    /\ Emits(press)[1].defaultPrevented

\* C7: every press, also one on the active tab, emits exactly one event, a
\* cancelable 'tabPress' whose target is the pressed route's key, and issues
\* at most one navigation request.
C7_OneCancelableTabPress ==
    press.pressed
        => /\ Len(Emits(press)) = 1
           /\ Emits(press)[1].type = "tabPress"
           /\ Emits(press)[1].target = press.stateRoute.key
           /\ Emits(press)[1].canPreventDefault
           /\ Len(Navs(press)) <= 1
           /\ \A k \in DOMAIN press.effects :
                  press.effects[k].kind \in {"haptic", "emit", "navigate"}

C7_Witness ==
    /\ press.pressed
    /\ press.index = press.activeIndex
    /\ Len(Emits(press)) = 1

\* C8: within a press a navigation request comes only after the tabPress
\* event was emitted and came back not vetoed.
C8_EmitBeforeNavigate ==
    press.pressed
        => \A k \in DOMAIN press.effects :
               press.effects[k].kind = "navigate"
                   => \E j \in 1 .. (k - 1) :
                          /\ press.effects[j].kind = "emit"
                          /\ ~press.effects[j].defaultPrevented

C8_Witness ==
    /\ press.pressed
    /\ Len(Navs(press)) = 1
    /\ press.effects[Len(press.effects)].kind = "navigate"

\* C9: on iOS every press triggers exactly one haptic pulse, Medium exactly
\* when the pressed item is at index 2 and Light otherwise, focused or not,
\* vetoed or not; elsewhere no pulse is triggered, and the emit and navigate
\* calls are those made on iOS.
C9_HapticStyle ==
    press.pressed
        => /\ EXPO_OS = "ios"
                => /\ Len(HapticCalls(press)) = 1
                   /\ HapticCalls(press)[1].style = "Medium" <=> press.index = 2
                   /\ HapticCalls(press)[1].style = "Light" <=> press.index # 2
           /\ EXPO_OS # "ios" => Len(HapticCalls(press)) = 0
           /\ Dispatch(press.effects)
                  = Dispatch(handleTabPress(press.route, press.index,
                                            press.isFocused, "ios",
                                            press.listenerVeto, "resolves").effects)

C9_Witness ==
    /\ press.pressed
    /\ EXPO_OS = "ios"
    /\ press.index = 2
    /\ press.isFocused
    /\ press.listenerVeto
    /\ HapticCalls(press)[1].style = "Medium"

\* C10: whatever becomes of the haptic promise, the press emits its event and
\* issues the navigation request it would issue otherwise; the handler
\* returns without waiting and reports no error.
C10_HapticFireAndForget ==
    press.pressed
        => /\ press.returned
           /\ press.error = "none"
           /\ Len(Emits(press)) = 1
           /\ \A f \in HapticFates :
                  Dispatch(handleTabPress(press.route, press.index,
                                          press.isFocused, EXPO_OS,
                                          press.listenerVeto, f).effects)
                      = Dispatch(press.effects)

C10_Witness ==
    /\ press.pressed
    /\ EXPO_OS = "ios"
    /\ press.fate = "rejects"
    /\ Len(HapticCalls(press)) = 1
    /\ Len(Navs(press)) = 1

\* C11: the tab bar never changes the navigation state it was given: after a
\* press the route list is the one before it, and the active index is the
\* one before it unless the press issued a navigation request, which alone
\* can make the pressed index the active one; a press that issues no request
\* leaves the whole state as it was.
C11_NeverMutatesState ==
    press.pressed
        => /\ state.routes = press.stateBefore.routes
           /\ \/ state.index = press.stateBefore.index
              \/ Len(Navs(press)) = 1 /\ state.index = press.index
           /\ Len(Navs(press)) = 0 => state = press.stateBefore
           /\ \A i \in DOMAIN rendered.items :
                  rendered.items[i].onPress.route = state.routes[i]

C11_Witness ==
    /\ press.pressed
    /\ press.listenerVeto
    /\ press.index # press.activeIndex
    /\ press.stateRoute.params # undefined
    /\ state = press.stateBefore

\* The labels of a render's items, in the order of the row.
LabelsOf(r) == [i \in DOMAIN r.items |-> r.items[i].label.text]

\* The items of a render with the circular accent-colored background.
AccentCircles(r) ==
    {i \in DOMAIN r.items :
        /\ r.items[i].content.container = "centerButtonContainer"
        /\ r.items[i].content.backgroundColor = "#FF6B35"}

\* C12: with active index 0 and the route list index, recipients, send-money,
\* track, locations the bar has exactly 5 items, labeled Home, Recipients,
\* Send Money, Track, Locations in that order, and the item at index 2 (Send
\* Money) alone has the circular accent-colored background.
C12_EndToEndRender ==
    (state.index = 0
     /\ [i \in DOMAIN state.routes |-> state.routes[i].name]
            = (0 :> "index" @@ 1 :> "recipients" @@ 2 :> "send-money"
               @@ 3 :> "track" @@ 4 :> "locations"))
        => /\ Cardinality(DOMAIN rendered.items) = 5
           /\ LabelsOf(rendered)
                  = (0 :> "Home" @@ 1 :> "Recipients" @@ 2 :> "Send Money"
                     @@ 3 :> "Track" @@ 4 :> "Locations")
           /\ AccentCircles(rendered) = {2}
           /\ \A i \in DOMAIN rendered.items :
                  i # 2 => rendered.items[i].content.backgroundColor # "#FF6B35"

C12_Witness ==
    /\ state.index = 0
    /\ DOMAIN state.routes = 0 .. 4
    /\ colorScheme = "dark"
    /\ rendered.items[2].label.text = "Send Money"
    /\ rendered.items[0].accessibilityState.selected

\* C13: TabLayout registers exactly five screens, named index, recipients,
\* send-money, track, locations in that order, so the route at index 2 is
\* send-money, and it installs CustomTabBar as the renderer of the bar.
C13_FiveScreensRegistered ==
    LET layout == TabLayout(colorScheme)
    IN  /\ Len(layout.screens) = 5
        /\ [k \in 1 .. 5 |-> layout.screens[k].name]
               = <<"index", "recipients", "send-money", "track", "locations">>
        /\ DOMAIN state.routes = 0 .. 4
        /\ \A i \in DOMAIN state.routes :
               state.routes[i].name = layout.screens[i + 1].name
        /\ state.routes[2].name = "send-money"
        /\ layout.tabBar = "CustomTabBar"
        /\ rendered = CustomTabBar(state, colorScheme)

C13_Witness ==
    /\ state.index = 2
    /\ state.routes[2].name = "send-money"
    /\ rendered.items[2].accessibilityState.selected
    /\ rendered.items[2].label.text = "Send Money"

\* C14: a press on a tab i other than the active one that no listener vetoes
\* issues a navigation request, and once the engine has accepted it the
\* active index is i; a press on tab i while i is the active index issues no
\* navigation request and leaves i active.
C14_PressMakesActive ==
    [][ press'.pressed
            => /\ (press'.index # state.index /\ ~press'.listenerVeto)
                    => /\ Len(Navs(press')) = 1
                       /\ press'.accepted => state'.index = press'.index
               /\ press'.index = state.index
                    => /\ Len(Navs(press')) = 0
                       /\ state'.index = state.index ]_vars

C14_Witness ==
    /\ press.pressed
    /\ press.accepted
    /\ ~press.listenerVeto
    /\ press.activeIndex # press.index
    /\ state.index = press.index

C16_NoErrorSurfaced ==
    /\ mapped.called
          => /\ mapped.icon \in {"house.fill", "person.2.fill", "paperplane.fill",
                                 "arrow.left.arrow.right", "location.fill"}
             /\ mapped.label \in {"Home", "Recipients", "Send Money", "Track",
                                  "Locations", mapped.routeName}
    /\ press.pressed
          => /\ press.returned
             /\ press.error = "none"
             /\ Len(Emits(press)) = 1
             /\ press.effects[Len(press.effects)].kind \in {"emit", "navigate"}

C16_Witness ==
    /\ press.pressed
    /\ mapped.called
    /\ mapped.routeName = "settings"
    /\ press.route.name = "settings"
    /\ press.index = 5
    /\ EXPO_OS = "ios"
    /\ press.fate = "rejects"
    /\ press.returned

\* The palette the ambient color scheme stands for: dark for "dark", light
\* for "light" and for an absent scheme.
AmbientPalette == IF colorScheme = "dark" THEN Colors.dark ELSE Colors.light

\* C17: the palette has exactly the two variants light and dark, with the
\* same color names; a render uses the palette of the ambient color scheme,
\* the light one when the scheme is absent, in CustomTabBar and in TabLayout.
C17_PaletteByScheme ==
    /\ DOMAIN Colors = {"light", "dark"}
    /\ DOMAIN Colors.light = DOMAIN Colors.dark
    /\ rendered.backgroundColor = AmbientPalette.tabBarBackground
    /\ rendered.items[2].label.color = AmbientPalette.tabIconSelected
    /\ \A i \in DOMAIN rendered.items :
           rendered.items[i].label.color
               \in {AmbientPalette.tabIconSelected, AmbientPalette.tabIconDefault}
    /\ TabLayout(colorScheme).screenOptions.tabBarActiveTintColor
           = AmbientPalette.tabIconSelected
    /\ TabLayout(colorScheme).screenOptions.tabBarInactiveTintColor
           = AmbientPalette.tabIconDefault

C17_Witness ==
    /\ colorScheme = "null"
    /\ state.index = 3
    /\ rendered.backgroundColor = "#FFFFFF"
    /\ rendered.items[3].label.color = "#000000"

\* C18: the background of the circular container of the center button is the
\* orange #FF6B35 under the light, the dark and an absent color scheme.
C18_AccentSameInBothThemes ==
    /\ rendered.items[2].content.backgroundColor = "#FF6B35"
    /\ Colors.light.primaryOrange = "#FF6B35"
    /\ Colors.dark.primaryOrange = "#FF6B35"
    /\ \A sch \in ColorSchemes :
           CustomTabBar(state, sch).items[2].content.backgroundColor
               = rendered.items[2].content.backgroundColor

C18_Witness ==
    /\ colorScheme = "dark"
    /\ rendered.backgroundColor = "#1C1C1E"
    /\ rendered.items[2].content.container = "centerButtonContainer"
    /\ rendered.items[2].content.backgroundColor = "#FF6B35"

\* C19: the bar has one pressable item per route, in the order of the route
\* list: item i is built from route i and keyed by its key, and a press on
\* item i calls the handler with route i and index i.
C19_OneItemPerRoute ==
    /\ DOMAIN rendered.items = DOMAIN state.routes
    /\ Cardinality(DOMAIN rendered.items) = Cardinality(DOMAIN state.routes)
    /\ \A i \in DOMAIN rendered.items :
           /\ rendered.items[i].key = state.routes[i].key
           /\ rendered.items[i].label.text = getTabLabel(state.routes[i].name)
           /\ rendered.items[i].onPress.route = state.routes[i]
           /\ rendered.items[i].onPress.index = i
    /\ press.pressed
          => /\ press.route = press.stateBefore.routes[press.item]
             /\ press.index = press.item

C19_Witness ==
    /\ press.pressed
    /\ press.item = 3
    /\ press.index = 3
    /\ press.route.name = "track"
    /\ rendered.items[3].key = "track-key"

\* C20: every item other than the one at index 2 is colored by its state:
\* icon and label use tabIconSelected of the palette when the item's index is
\* the active index and tabIconDefault otherwise.
C20_ColoredByActiveState ==
    \A i \in DOMAIN rendered.items :
        i # 2 =>
            LET c == IF i = state.index THEN AmbientPalette.tabIconSelected
                                        ELSE AmbientPalette.tabIconDefault
            IN  /\ rendered.items[i].content.iconColor = c
                /\ rendered.items[i].label.color = c

C20_Witness ==
    /\ state.index = 1
    /\ colorScheme = "dark"
    /\ rendered.items[1].content.iconColor = "#FFFFFF"
    /\ rendered.items[1].label.color = "#FFFFFF"
    /\ rendered.items[3].content.iconColor = "#8E8E93"

\* C21: every icon name getIconName returns, for a registered route name and
\* for a name no screen is registered under, is one of the five symbol names
\* IconSymbol's table maps to a glyph, and so is every icon name a rendered
\* item asks IconSymbol for.
C21_OnlyMappedIcons ==
    /\ mapped.called
          => /\ mapped.icon \in DOMAIN MAPPING
             /\ MAPPING[mapped.icon]
                    \in {"home", "people", "send", "swap-horiz", "location-on"}
    /\ \A i \in DOMAIN rendered.items :
           rendered.items[i].content.iconName \in DOMAIN MAPPING
    /\ DOMAIN MAPPING = {"house.fill", "person.2.fill", "paperplane.fill",
                         "arrow.left.arrow.right", "location.fill"}

C21_Witness ==
    /\ mapped.called
    /\ mapped.routeName = "settings"
    /\ mapped.icon = "house.fill"
    /\ MAPPING[mapped.icon] = "home"

C23_IndexChangesOnlyByNavigate ==
    /\ state.index \in DOMAIN state.routes
    /\ press.pressed
          => /\ press.stateBefore.index \in DOMAIN press.stateBefore.routes
             /\ state.index # press.stateBefore.index
                    => /\ ~press.listenerVeto
                       /\ press.index # press.stateBefore.index
                       /\ Len(Navs(press)) = 1
                       /\ press.accepted
                       /\ state.index = press.index
             /\ (press.listenerVeto \/ press.index = press.stateBefore.index)
                    => state = press.stateBefore

C23_Witness ==
    /\ press.pressed
    /\ press.stateBefore.index = 3
    /\ press.index = 4
    /\ ~press.listenerVeto
    /\ press.accepted
    /\ state.index = 4

\* C24: in every render exactly one item is announced as selected, the item
\* whose index is the active index, and the accessibility label of every
\* item is the label of its route followed by " tab".
C24_OneSelectedLabelledTab ==
    LET selected == {i \in DOMAIN rendered.items :
                        rendered.items[i].accessibilityState.selected}
    IN  state.index \in DOMAIN state.routes
            => /\ Cardinality(selected) = 1
               /\ selected = {state.index}
               /\ \A i \in DOMAIN rendered.items :
                      /\ rendered.items[i].accessibilityLabel
                             = getTabLabel(state.routes[i].name) \o " tab"
                      /\ rendered.items[i].accessibilityLabel
                             = rendered.items[i].label.text \o " tab"
               /\ [i \in DOMAIN rendered.items |->
                      rendered.items[i].accessibilityLabel]
                      = [i \in RouteIndices |->
                            <<"Home tab", "Recipients tab", "Send Money tab",
                              "Track tab", "Locations tab">>[i + 1]]

C24_Witness ==
    /\ state.index = 3
    /\ rendered.items[3].accessibilityState.selected
    /\ ~rendered.items[2].accessibilityState.selected
    /\ rendered.items[3].accessibilityLabel = "Track tab"

\* C25: for each of the five screens TabLayout registers, the label
\* getTabLabel returns for the screen's name is the title and the tabBarLabel
\* of the screen's options, and it is the label text of the item rendered
\* for that screen, which is built from the route's name alone.
C25_LabelsAgreeWithLayout ==
    LET screens == TabLayout(colorScheme).screens
    IN  /\ \A k \in DOMAIN screens :
               /\ (mapped.called /\ mapped.routeName = screens[k].name)
                      => /\ mapped.label = screens[k].options.title
                         /\ mapped.label = screens[k].options.tabBarLabel
               /\ state.routes[k - 1].name = screens[k].name
               /\ rendered.items[k - 1].label.text = screens[k].options.title
               /\ rendered.items[k - 1].label.text = screens[k].options.tabBarLabel
        /\ Len(screens) = 5

C25_Witness ==
    /\ mapped.called
    /\ mapped.routeName = "send-money"
    /\ mapped.label = "Send Money"
    /\ TabLayout(colorScheme).screens[3].name = "send-money"
    /\ TabLayout(colorScheme).screens[3].options.tabBarLabel = "Send Money"

\* C26: the item at index 2 looks the same whichever route is active: its
\* icon is white on the circle of the accent color and its label has the
\* palette's tabIconSelected color, in the rendered bar and in the bar
\* rendered for any other active index.
C26_CenterLooksTheSame ==
    /\ rendered.items[2].content.container = "centerButtonContainer"
    /\ rendered.items[2].content.iconColor = "#FFFFFF"
    /\ rendered.items[2].content.backgroundColor = AmbientPalette.primaryOrange
    /\ rendered.items[2].label.color = AmbientPalette.tabIconSelected
    /\ \A a \in DOMAIN state.routes :
           LET other == CustomTabBar([state EXCEPT !.index = a], colorScheme)
           IN  /\ other.items[2].content = rendered.items[2].content
               /\ other.items[2].label = rendered.items[2].label
               /\ other.items[2].style = rendered.items[2].style

C26_Witness ==
    /\ state.index = 4
    /\ colorScheme = "light"
    /\ ~rendered.items[2].accessibilityState.selected
    /\ rendered.items[2].content.iconColor = "#FFFFFF"
    /\ rendered.items[2].content.backgroundColor = "#FF6B35"
    /\ rendered.items[2].label.color = "#000000"
    /\ rendered.items[1].label.color = "#8E8E93"

====
